---- MODULE Spec2Model ----
(***************************************************************************)
(* Model of @ts-stack/type-is (src/src/type-is.ts): is, typeIs, hasBody,   *)
(* normalize and mimeMatch, with the parts of the content-type and         *)
(* mime-types packages they call.                                          *)
(*                                                                         *)
(* A JavaScript value is a record [t, v]: t is its typeof-like kind and v  *)
(* its content.  A string's v is the sequence of its characters, so that   *)
(* split, slice, indexOf, trim and toLowerCase are computed character by   *)
(* character.  An array's v is the sequence of its elements.               *)
(***************************************************************************)
EXTENDS Integers, Sequences, FiniteSets, TLC

VARIABLES
  pc,         \* "call": the arguments are bound; "done": the function returned
  fn,         \* the exported function that is called
  headers,    \* typeIs/hasBody: the header map (te, cl, ct)
  mediaType,  \* is: actual_;  mimeMatch: actual
  args,       \* is/typeIs: the arguments after the first, as passed
  expected,   \* mimeMatch: expected;  normalize: type
  result      \* the value returned

vars == <<pc, fn, headers, mediaType, args, expected, result>>

----------------------------------------------------------------------------
(* JavaScript values *)

Str(s) == [t |-> "string", v |-> s]
Arr(a) == [t |-> "array", v |-> a]
Undefined == [t |-> "undefined", v |-> <<>>]
Null == [t |-> "null", v |-> <<>>]
JSTrue == [t |-> "boolean", v |-> <<"true">>]
JSFalse == [t |-> "boolean", v |-> <<"false">>]
JSFunction == [t |-> "function", v |-> <<>>]
Bool(b) == IF b THEN JSTrue ELSE JSFalse
\* the outcome of a call that throws a TypeError instead of returning
Thrown == [t |-> "throw", v |-> <<"TypeError">>]

IsString(x) == x.t = "string"
IsArray(x) == x.t = "array"

\* ToBoolean: undefined, null, false and '' are falsy
Truthy(x) ==
  CASE x.t = "undefined" -> FALSE
    [] x.t = "null" -> FALSE
    [] x.t = "boolean" -> x = JSTrue
    [] x.t = "string" -> Len(x.v) > 0
    [] OTHER -> TRUE

----------------------------------------------------------------------------
(* String.prototype operations, on character sequences *)

\* s.indexOf(c) for a one-character c: 0-based, -1 when absent
IndexOf(s, c) ==
  IF \E i \in 1..Len(s) : s[i] = c
  THEN (CHOOSE i \in 1..Len(s) : s[i] = c /\ \A j \in 1..(i - 1) : s[j] # c) - 1
  ELSE -1

\* s.lastIndexOf(c)
LastIndexOf(s, c) ==
  IF \E i \in 1..Len(s) : s[i] = c
  THEN (CHOOSE i \in 1..Len(s) : s[i] = c /\ \A j \in (i + 1)..Len(s) : s[j] # c) - 1
  ELSE -1

\* s.split(c): the segments between the occurrences of c ("" gives [""])
RECURSIVE Split(_, _)
Split(s, c) ==
  LET i == IndexOf(s, c)
  IN IF i = -1 THEN <<s>>
     ELSE <<SubSeq(s, 1, i)>> \o Split(SubSeq(s, i + 2, Len(s)), c)

\* s.slice(start, end): negative indices count from the end
Slice(s, start, end) ==
  LET n == Len(s)
      from == IF start < 0 THEN (IF n + start < 0 THEN 0 ELSE n + start)
              ELSE (IF start > n THEN n ELSE start)
      to == IF end < 0 THEN (IF n + end < 0 THEN 0 ELSE n + end)
            ELSE (IF end > n THEN n ELSE end)
  IN SubSeq(s, from + 1, to)

\* s.slice(start)
SliceFrom(s, start) == Slice(s, start, Len(s))

----------------------------------------------------------------------------
(* mimeMatch *)

\* mimeMatch testing the suffix wildcard before the type
mimeMatch_suffixBeforeType(expected_, actual) ==
  IF expected_ = JSFalse THEN FALSE
  ELSE
    LET actualParts == Split(actual.v, "/")
        expectedParts == Split(expected_.v, "/")
    IN IF Len(actualParts) # 2 \/ Len(expectedParts) # 2 THEN FALSE
       ELSE IF Slice(expectedParts[2], 0, 2) = <<"*", "+">>
       THEN /\ Len(expectedParts[2]) <= Len(actualParts[2]) + 1
            /\ SliceFrom(expectedParts[2], 1)
                 = SliceFrom(actualParts[2], 1 - Len(expectedParts[2]))
       ELSE IF expectedParts[1] # <<"*">> /\ expectedParts[1] # actualParts[1] THEN FALSE
       ELSE IF expectedParts[2] # <<"*">> /\ expectedParts[2] # actualParts[2] THEN FALSE
       ELSE TRUE

\* mimeMatch asking for at least two segments instead of exactly two
mimeMatch_twoOrMoreSegments(expected_, actual) ==
  IF expected_ = JSFalse THEN FALSE
  ELSE
    LET actualParts == Split(actual.v, "/")
        expectedParts == Split(expected_.v, "/")
    IN IF Len(actualParts) < 2 \/ Len(expectedParts) < 2 THEN FALSE
       ELSE IF expectedParts[1] # <<"*">> /\ expectedParts[1] # actualParts[1] THEN FALSE
       ELSE IF Slice(expectedParts[2], 0, 2) = <<"*", "+">>
       THEN /\ Len(expectedParts[2]) <= Len(actualParts[2]) + 1
            /\ SliceFrom(expectedParts[2], 1)
                 = SliceFrom(actualParts[2], 1 - Len(expectedParts[2]))
       ELSE IF expectedParts[2] # <<"*">> /\ expectedParts[2] # actualParts[2] THEN FALSE
       ELSE TRUE

\* mimeMatch cutting the actual subtype one character too early for the suffix
mimeMatch_suffixSliceOffByOne(expected_, actual) ==
  IF expected_ = JSFalse THEN FALSE
  ELSE
    LET actualParts == Split(actual.v, "/")
        expectedParts == Split(expected_.v, "/")
    IN IF Len(actualParts) # 2 \/ Len(expectedParts) # 2 THEN FALSE
       ELSE IF expectedParts[1] # <<"*">> /\ expectedParts[1] # actualParts[1] THEN FALSE
       ELSE IF Slice(expectedParts[2], 0, 2) = <<"*", "+">>
       THEN /\ Len(expectedParts[2]) <= Len(actualParts[2]) + 1
            /\ SliceFrom(expectedParts[2], 1)
                 = SliceFrom(actualParts[2], 0 - Len(expectedParts[2]))
       ELSE IF expectedParts[2] # <<"*">> /\ expectedParts[2] # actualParts[2] THEN FALSE
       ELSE TRUE

\* mimeMatch taking "*" as a wildcard in the actual too
mimeMatch_wildcardInActual(expected_, actual) ==
  IF expected_ = JSFalse THEN FALSE
  ELSE
    LET actualParts == Split(actual.v, "/")
        expectedParts == Split(expected_.v, "/")
    IN IF Len(actualParts) # 2 \/ Len(expectedParts) # 2 THEN FALSE
       ELSE IF expectedParts[1] # <<"*">> /\ actualParts[1] # <<"*">>
                 /\ expectedParts[1] # actualParts[1] THEN FALSE
       ELSE IF Slice(expectedParts[2], 0, 2) = <<"*", "+">>
       THEN /\ Len(expectedParts[2]) <= Len(actualParts[2]) + 1
            /\ SliceFrom(expectedParts[2], 1)
                 = SliceFrom(actualParts[2], 1 - Len(expectedParts[2]))
       ELSE IF expectedParts[2] # <<"*">> /\ actualParts[2] # <<"*">>
                 /\ expectedParts[2] # actualParts[2] THEN FALSE
       ELSE TRUE

mimeMatch(expected_, actual) ==
  IF expected_ = JSFalse THEN FALSE
  ELSE
    LET actualParts == Split(actual.v, "/")
        expectedParts == Split(expected_.v, "/")
    IN IF Len(actualParts) # 2 \/ Len(expectedParts) # 2 THEN FALSE
       ELSE IF expectedParts[1] # <<"*">> /\ expectedParts[1] # actualParts[1] THEN FALSE
       ELSE IF Slice(expectedParts[2], 0, 2) = <<"*", "+">>
       THEN /\ Len(expectedParts[2]) <= Len(actualParts[2]) + 1
            /\ SliceFrom(expectedParts[2], 1)
                 = SliceFrom(actualParts[2], 1 - Len(expectedParts[2]))
       ELSE IF expectedParts[2] # <<"*">> /\ expectedParts[2] # actualParts[2] THEN FALSE
       ELSE TRUE

----------------------------------------------------------------------------
(* Character classes of the content-type package *)

LowerLetters == <<"a", "b", "c", "d", "e", "f", "g", "h", "i", "j", "k", "l", "m", "n", "o", "p", "q", "r", "s", "t", "u", "v", "w", "x", "y", "z">>
UpperLetters == <<"A", "B", "C", "D", "E", "F", "G", "H", "I", "J", "K", "L", "M", "N", "O", "P", "Q", "R", "S", "T", "U", "V", "W", "X", "Y", "Z">>
Digits == {"0", "1", "2", "3", "4", "5", "6", "7", "8", "9"}
Range(q) == {q[i] : i \in 1..Len(q)}

\* the token characters of TYPE_REGEXP and PARAM_REGEXP: letters, digits and
\* ! # $ % & ' * + . ^ _ | ~ - (the grave accent, also a token character, is not
\* used by any input of the model)
TokenChars ==
  Range(LowerLetters) \cup Range(UpperLetters) \cup Digits
    \cup {"!", "#", "$", "%", "&", "'", "*", "+", ".", "^", "_", "|", "~", "-"}

\* what String.prototype.trim removes (of the characters the model uses)
WhiteSpace == {" ", "\t"}

ToLowerChar(c) ==
  IF \E i \in 1..Len(UpperLetters) : UpperLetters[i] = c
  THEN LowerLetters[CHOOSE i \in 1..Len(UpperLetters) : UpperLetters[i] = c]
  ELSE c

\* s.toLowerCase()
ToLowerCase(s) == [i \in 1..Len(s) |-> ToLowerChar(s[i])]

\* s.trim()
Trim(s) ==
  IF \A i \in 1..Len(s) : s[i] \in WhiteSpace THEN <<>>
  ELSE LET a == CHOOSE i \in 1..Len(s) :
                  s[i] \notin WhiteSpace /\ \A j \in 1..(i - 1) : s[j] \in WhiteSpace
           b == CHOOSE i \in 1..Len(s) :
                  s[i] \notin WhiteSpace /\ \A j \in (i + 1)..Len(s) : s[j] \in WhiteSpace
       IN SubSeq(s, a, b)

\* the position after the longest run of characters of Set that starts at p
SkipSet(s, p, Set) ==
  CHOOSE q \in p..(Len(s) + 1) :
    /\ \A j \in p..(q - 1) : s[j] \in Set
    /\ q = Len(s) + 1 \/ s[q] \notin Set

\* TYPE_REGEXP.test(s): token "/" token
TypeRegexpTest(s) ==
  LET parts == Split(s, "/")
  IN /\ Len(parts) = 2
     /\ Len(parts[1]) > 0 /\ Len(parts[2]) > 0
     /\ \A i \in 1..Len(s) : s[i] = "/" \/ s[i] \in TokenChars

\* the quoted-string alternative of PARAM_REGEXP, read from inside the opening quote:
\* the position after the closing quote, 0 when the string is not closed
RECURSIVE QuotedEnd(_, _)
QuotedEnd(s, p) ==
  IF p > Len(s) THEN 0
  ELSE IF s[p] = "\"" THEN p + 1
  ELSE IF s[p] = "\\"
       THEN (IF p + 1 <= Len(s) /\ s[p + 1] # "\t" THEN QuotedEnd(s, p + 2) ELSE 0)
  ELSE IF s[p] # "\t" THEN QuotedEnd(s, p + 1)
  ELSE 0

\* PARAM_REGEXP matched at position p (1-based): the position after the match, 0 when
\* there is no match at p:   ; *token *= *(quoted-string|token) *
ParamMatchEnd(s, p) ==
  IF p > Len(s) \/ s[p] # ";" THEN 0
  ELSE
    LET k1 == SkipSet(s, p + 1, {" "})
        k2 == SkipSet(s, k1, TokenChars)
        k3 == SkipSet(s, k2, {" "})
        v1 == SkipSet(s, k3 + 1, {" "})
        v2 == IF v1 <= Len(s) /\ s[v1] = "\"" THEN QuotedEnd(s, v1 + 1)
              ELSE IF SkipSet(s, v1, TokenChars) > v1 THEN SkipSet(s, v1, TokenChars)
              ELSE 0
    IN IF k2 = k1 THEN 0
       ELSE IF k3 > Len(s) \/ s[k3] # "=" THEN 0
       ELSE IF v2 = 0 THEN 0
       ELSE SkipSet(s, v2, {" "})

\* the parameter loop of contentType.parse: every parameter must start where the
\* previous one ended, and the last one must end the header
RECURSIVE ParamsOK(_, _)
ParamsOK(s, p) ==
  IF p = Len(s) + 1 THEN TRUE
  ELSE LET q == ParamMatchEnd(s, p)
       IN IF q = 0 THEN FALSE ELSE ParamsOK(s, q)

\* contentType.parse(value): [threw, type]; the parameters it collects are not kept,
\* normalizeType overwrites them
contentTypeParse(value) ==
  IF ~IsString(value) THEN [threw |-> TRUE, type |-> <<>>]
  ELSE
    LET header == value.v
        index == IndexOf(header, ";")
        type == IF index # -1 THEN Trim(Slice(header, 0, index)) ELSE Trim(header)
    IN IF ~TypeRegexpTest(type) THEN [threw |-> TRUE, type |-> <<>>]
       ELSE IF index # -1 /\ ~ParamsOK(header, index + 1) THEN [threw |-> TRUE, type |-> <<>>]
       ELSE [threw |-> FALSE, type |-> ToLowerCase(type)]

\* contentType.format(obj) for an object without parameters
contentTypeFormat(obj) ==
  IF Len(obj.type) = 0 \/ ~TypeRegexpTest(obj.type) THEN [threw |-> TRUE, string |-> <<>>]
  ELSE [threw |-> FALSE, string |-> obj.type]

----------------------------------------------------------------------------
(* mime.lookup of the mime-types package, with a few entries of its table *)

MimeTypes ==
  { <<<<"j", "s", "o", "n">>, <<"a", "p", "p", "l", "i", "c", "a", "t", "i", "o", "n", "/", "j", "s", "o", "n">>>>,
    <<<<"p", "n", "g">>, <<"i", "m", "a", "g", "e", "/", "p", "n", "g">>>>,
    <<<<"j", "p", "e", "g">>, <<"i", "m", "a", "g", "e", "/", "j", "p", "e", "g">>>>,
    <<<<"h", "t", "m", "l">>, <<"t", "e", "x", "t", "/", "h", "t", "m", "l">>>>,
    <<<<"t", "x", "t">>, <<"t", "e", "x", "t", "/", "p", "l", "a", "i", "n">>>>,
    <<<<"x", "m", "l">>, <<"a", "p", "p", "l", "i", "c", "a", "t", "i", "o", "n", "/", "x", "m", "l">>>> }

mimeLookup(path) ==
  IF Len(path) = 0 THEN JSFalse
  ELSE
    LET full == <<"x", ".">> \o path
        extension == ToLowerCase(SliceFrom(full, LastIndexOf(full, ".") + 1))
    IN IF Len(extension) = 0 THEN JSFalse
       ELSE IF \E e \in MimeTypes : e[1] = extension
       THEN Str((CHOOSE e \in MimeTypes : e[1] = extension)[2])
       ELSE JSFalse

----------------------------------------------------------------------------
(* normalize, normalizeType, tryNormalizeType *)

\* normalize passing a type with a "/" through before it looks for a leading "+"
normalize_slashBeforePlus(type) ==
  IF ~IsString(type) THEN JSFalse
  ELSE IF type.v = <<"u", "r", "l", "e", "n", "c", "o", "d", "e", "d">> THEN Str(<<"a", "p", "p", "l", "i", "c", "a", "t", "i", "o", "n", "/", "x", "-", "w", "w", "w", "-", "f", "o", "r", "m", "-", "u", "r", "l", "e", "n", "c", "o", "d", "e", "d">>)
  ELSE IF type.v = <<"m", "u", "l", "t", "i", "p", "a", "r", "t">> THEN Str(<<"m", "u", "l", "t", "i", "p", "a", "r", "t", "/", "*">>)
  ELSE IF IndexOf(type.v, "/") # -1 THEN type
  ELSE IF Len(type.v) > 0 /\ type.v[1] = "+" THEN Str(<<"*", "/", "*">> \o type.v)
  ELSE mimeLookup(type.v)

\* normalize putting the type in lower case
normalize_lowerCase(type) ==
  IF ~IsString(type) THEN JSFalse
  ELSE IF ToLowerCase(type.v) = <<"u", "r", "l", "e", "n", "c", "o", "d", "e", "d">> THEN Str(<<"a", "p", "p", "l", "i", "c", "a", "t", "i", "o", "n", "/", "x", "-", "w", "w", "w", "-", "f", "o", "r", "m", "-", "u", "r", "l", "e", "n", "c", "o", "d", "e", "d">>)
  ELSE IF ToLowerCase(type.v) = <<"m", "u", "l", "t", "i", "p", "a", "r", "t">> THEN Str(<<"m", "u", "l", "t", "i", "p", "a", "r", "t", "/", "*">>)
  ELSE IF Len(type.v) > 0 /\ type.v[1] = "+" THEN Str(<<"*", "/", "*">> \o ToLowerCase(type.v))
  ELSE IF IndexOf(type.v, "/") = -1 THEN mimeLookup(type.v)
  ELSE Str(ToLowerCase(type.v))

normalize(type) ==
  IF ~IsString(type) THEN JSFalse
  ELSE IF type.v = <<"u", "r", "l", "e", "n", "c", "o", "d", "e", "d">> THEN Str(<<"a", "p", "p", "l", "i", "c", "a", "t", "i", "o", "n", "/", "x", "-", "w", "w", "w", "-", "f", "o", "r", "m", "-", "u", "r", "l", "e", "n", "c", "o", "d", "e", "d">>)
  ELSE IF type.v = <<"m", "u", "l", "t", "i", "p", "a", "r", "t">> THEN Str(<<"m", "u", "l", "t", "i", "p", "a", "r", "t", "/", "*">>)
  ELSE IF Len(type.v) > 0 /\ type.v[1] = "+" THEN Str(<<"*", "/", "*">> \o type.v)
  ELSE IF IndexOf(type.v, "/") = -1 THEN mimeLookup(type.v)
  ELSE type

\* normalizeType without "type.parameters = {}": format writes the parameters back
normalizeType_keepParameters(value) ==
  LET type == contentTypeParse(value)
      index == IndexOf(value.v, ";")
  IN IF type.threw THEN [threw |-> TRUE, value |-> Undefined]
     ELSE [threw |-> FALSE,
           value |-> Str(type.type \o (IF index = -1 THEN <<>> ELSE SliceFrom(value.v, index)))]

\* [threw, value]
normalizeType(value) ==
  LET type == contentTypeParse(value)
  IN IF type.threw THEN [threw |-> TRUE, value |-> Undefined]
     ELSE LET s == contentTypeFormat([type |-> type.type, parameters |-> <<>>])
          IN IF s.threw THEN [threw |-> TRUE, value |-> Undefined]
             ELSE [threw |-> FALSE, value |-> Str(s.string)]

\* tryNormalizeType checking the value and returning it as it came
tryNormalizeType_validatesOnly(value) ==
  IF ~Truthy(value) THEN Null
  ELSE LET r == normalizeType(value)
       IN IF r.threw THEN Null ELSE value

tryNormalizeType(value) ==
  IF ~Truthy(value) THEN Null
  ELSE LET r == normalizeType(value)
       IN IF r.threw THEN Null ELSE r.value

----------------------------------------------------------------------------
(* is *)

\* isLoop deciding what to return from the normalized type instead of the type given
RECURSIVE isLoop_normalizedDecision(_, _, _)
isLoop_normalizedDecision(acceptable, i, actual) ==
  IF i > Len(acceptable) THEN JSFalse
  ELSE
    LET type == acceptable[i]
        n == normalize(type)
        normalized == IF n = Null \/ n = Undefined THEN JSFalse ELSE n
    IN IF mimeMatch(normalized, actual)
       THEN (IF (Len(normalized.v) > 0 /\ normalized.v[1] = "+")
                  \/ IndexOf(normalized.v, "*") # -1
             THEN actual
             ELSE type)
       ELSE isLoop_normalizedDecision(acceptable, i + 1, actual)

\* isLoop keeping on after a match, so that the last match wins
RECURSIVE isLoop_lastMatch(_, _, _)
isLoop_lastMatch(acceptable, i, actual) ==
  IF i > Len(acceptable) THEN JSFalse
  ELSE
    LET type == acceptable[i]
        n == normalize(type)
        normalized == IF n = Null \/ n = Undefined THEN JSFalse ELSE n
        rest == isLoop_lastMatch(acceptable, i + 1, actual)
    IN IF mimeMatch(normalized, actual) /\ rest = JSFalse
       THEN (IF (Len(type.v) > 0 /\ type.v[1] = "+") \/ IndexOf(type.v, "*") # -1
             THEN actual
             ELSE type)
       ELSE rest

\* isLoop reading type[0] before it knows that the type matched
RECURSIVE isLoop_decisionBeforeMatch(_, _, _)
isLoop_decisionBeforeMatch(acceptable, i, actual) ==
  IF i > Len(acceptable) THEN JSFalse
  ELSE
    LET type == acceptable[i]
        n == normalize(type)
        normalized == IF n = Null \/ n = Undefined THEN JSFalse ELSE n
    IN IF type = Undefined \/ type = Null THEN Thrown
       ELSE IF mimeMatch(normalized, actual)
       THEN (IF (Len(type.v) > 0 /\ type.v[1] = "+") \/ IndexOf(type.v, "*") # -1
             THEN actual
             ELSE type)
       ELSE isLoop_decisionBeforeMatch(acceptable, i + 1, actual)

\* isLoop returning the normalized type instead of the type given
RECURSIVE isLoop_returnsNormalized(_, _, _)
isLoop_returnsNormalized(acceptable, i, actual) ==
  IF i > Len(acceptable) THEN JSFalse
  ELSE
    LET type == acceptable[i]
        n == normalize(type)
        normalized == IF n = Null \/ n = Undefined THEN JSFalse ELSE n
    IN IF mimeMatch(normalized, actual)
       THEN (IF (Len(type.v) > 0 /\ type.v[1] = "+") \/ IndexOf(type.v, "*") # -1
             THEN actual
             ELSE normalized)
       ELSE isLoop_returnsNormalized(acceptable, i + 1, actual)

\* the loop of is over acceptable[i..]; type[0] and type.indexOf throw a TypeError
\* when type is undefined or null
RECURSIVE isLoop(_, _, _)
isLoop(acceptable, i, actual) ==
  IF i > Len(acceptable) THEN JSFalse
  ELSE
    LET type == acceptable[i]
        n == normalize(type)
        normalized == IF n = Null \/ n = Undefined THEN JSFalse ELSE n
    IN IF mimeMatch(normalized, actual)
       THEN (IF type = Undefined \/ type = Null THEN Thrown
             ELSE IF (Len(type.v) > 0 /\ type.v[1] = "+") \/ IndexOf(type.v, "*") # -1
             THEN actual
             ELSE type)
       ELSE isLoop(acceptable, i + 1, actual)

\* is testing for an empty list before it looks at the media type
is_emptyListFirst(actual_, arguments_) ==
  LET actual == tryNormalizeType(actual_)
      acceptable_ == IF Len(arguments_) > 0 THEN arguments_[1] ELSE Undefined
      acceptable == IF IsArray(acceptable_) THEN acceptable_.v ELSE arguments_
  IN IF Len(acceptable) = 0 THEN (IF Truthy(actual) THEN actual ELSE actual_)
     ELSE IF ~Truthy(actual) THEN JSFalse
     ELSE isLoop(acceptable, 1, actual)

\* is copying arguments[i] instead of arguments[i + 1] into the list
is_shiftedArguments(actual_, arguments_) ==
  LET actual == tryNormalizeType(actual_)
      acceptable_ == IF Len(arguments_) > 0 THEN arguments_[1] ELSE Undefined
      acceptable == IF IsArray(acceptable_) THEN acceptable_.v
                    ELSE IF Len(arguments_) = 0 THEN <<>>
                    ELSE <<actual_>> \o SubSeq(arguments_, 1, Len(arguments_) - 1)
  IN IF ~Truthy(actual) THEN JSFalse
     ELSE IF Len(acceptable) = 0 THEN actual
     ELSE isLoop(acceptable, 1, actual)

\* is(actual_, ...arguments_): arguments_ are the arguments after actual_, as passed
is(actual_, arguments_) ==
  LET actual == tryNormalizeType(actual_)
      acceptable_ == IF Len(arguments_) > 0 THEN arguments_[1] ELSE Undefined
      acceptable == IF IsArray(acceptable_) THEN acceptable_.v ELSE arguments_
  IN IF ~Truthy(actual) THEN JSFalse
     ELSE IF Len(acceptable) = 0 THEN actual
     ELSE isLoop(acceptable, 1, actual)

----------------------------------------------------------------------------
(* hasBody *)

\* StrUnsignedDecimalLiteral: digits [. digits] [exponent], or . digits [exponent]
IsUnsignedDecimal(u) ==
  LET p1 == SkipSet(u, 1, Digits)
      dot == p1 <= Len(u) /\ u[p1] = "."
      p2 == IF dot THEN SkipSet(u, p1 + 1, Digits) ELSE p1
      mantissa == IF dot THEN p1 > 1 \/ p2 > p1 + 1 ELSE p1 > 1
      exp == p2 <= Len(u) /\ u[p2] \in {"e", "E"}
      p3 == IF exp /\ p2 + 1 <= Len(u) /\ u[p2 + 1] \in {"+", "-"} THEN p2 + 2 ELSE p2 + 1
      p4 == IF exp THEN SkipSet(u, p3, Digits) ELSE p2
  IN /\ mantissa
     /\ exp => p4 > p3
     /\ p4 = Len(u) + 1

\* 0x, 0o and 0b literals (unsigned)
IsNonDecimalInteger(u) ==
  /\ Len(u) >= 3
  /\ u[1] = "0"
  /\ \/ /\ u[2] \in {"x", "X"}
        /\ \A i \in 3..Len(u) :
             u[i] \in Digits \cup {"a", "b", "c", "d", "e", "f", "A", "B", "C", "D", "E", "F"}
     \/ /\ u[2] \in {"o", "O"}
        /\ \A i \in 3..Len(u) : u[i] \in {"0", "1", "2", "3", "4", "5", "6", "7"}
     \/ /\ u[2] \in {"b", "B"}
        /\ \A i \in 3..Len(u) : u[i] \in {"0", "1"}

\* whether Number(s) is a number (not NaN) for a string s: StringNumericLiteral
StringIsNumber(s) ==
  LET t == Trim(s)
      u == IF Len(t) > 0 /\ t[1] \in {"+", "-"} THEN Tail(t) ELSE t
  IN \/ t = <<>>
     \/ IsNonDecimalInteger(t)
     \/ u = <<"I", "n", "f", "i", "n", "i", "t", "y">>
     \/ IsUnsignedDecimal(u)

\* the global isNaN(x): Number(x) is NaN
isNaN(x) ==
  CASE x.t = "undefined" -> TRUE
    [] x.t = "null" -> FALSE
    [] x.t = "boolean" -> FALSE
    [] x.t = "string" -> ~StringIsNumber(x.v)
    [] OTHER -> TRUE

\* hasBody testing the transfer-encoding for truth instead of for presence
hasBody_truthyTransferEncoding(headers_) ==
  Truthy(headers_.te) \/ ~isNaN(headers_.cl)

\* headers is the record of the three header fields the package reads; a field that
\* is absent reads as Undefined
hasBody(headers_) ==
  headers_.te # Undefined \/ ~isNaN(headers_.cl)

----------------------------------------------------------------------------
(* typeIs *)

\* typeIs reading the content-type before it asks for a body
typeIs_contentTypeFirst(headers_, arguments_) ==
  LET acceptable_ == IF Len(arguments_) > 0 THEN arguments_[1] ELSE Undefined
      acceptable == IF IsArray(acceptable_) THEN acceptable_.v ELSE arguments_
      value == headers_.ct
  IN IF value = Undefined THEN JSFalse
     ELSE IF ~hasBody(headers_) THEN Null
     ELSE is(value, <<Arr(acceptable)>>)

\* typeIs copying arguments[i] instead of arguments[i + 1] into the list
typeIs_shiftedArguments(headers_, arguments_) ==
  IF ~hasBody(headers_) THEN Null
  ELSE
    LET acceptable_ == IF Len(arguments_) > 0 THEN arguments_[1] ELSE Undefined
        acceptable == IF IsArray(acceptable_) THEN acceptable_.v
                      ELSE IF Len(arguments_) = 0 THEN <<>>
                      ELSE <<[t |-> "object", v |-> <<>>]>>
                             \o SubSeq(arguments_, 1, Len(arguments_) - 1)
        value == headers_.ct
    IN is(value, <<Arr(acceptable)>>)

\* typeIs(headers_, ...arguments_)
typeIs(headers_, arguments_) ==
  IF ~hasBody(headers_) THEN Null
  ELSE
    LET acceptable_ == IF Len(arguments_) > 0 THEN arguments_[1] ELSE Undefined
        acceptable == IF IsArray(acceptable_) THEN acceptable_.v ELSE arguments_
        value == headers_.ct
    IN is(value, <<Arr(acceptable)>>)

----------------------------------------------------------------------------
(* The inputs of the calls *)

MaxTypes == 2      \* longest list of acceptable types
MaxLen == 4        \* longest string given to mimeMatch
MaxClLen == 3      \* longest content-length value given to hasBody
MaxTypeLen == 3    \* longest generated type given to normalize

\* all sequences over Set of length at most n
RECURSIVE SeqsUpTo(_, _)
SeqsUpTo(Set, n) ==
  IF n = 0 THEN {<<>>}
  ELSE LET shorter == SeqsUpTo(Set, n - 1)
       IN shorter \cup {Append(q, x) : q \in {r \in shorter : Len(r) = n - 1}, x \in Set}

\* values of actual_ (is) and of the content-type header (typeIs)
MediaTypes ==
  { Undefined, Null, Str(<<>>),
    Str(<<"b", "o", "g", "u", "s">>),
    Str(<<"i", "m", "a", "g", "e", "/", "p", "n", "g">>),
    Str(<<"I", "M", "A", "G", "E", "/", "P", "N", "G", ";", " ", "q", "=", "\"", "a", ";", "b", "\"">>),
    Str(<<"t", "e", "x", "t", "/", "H", "T", "M", "L", " ", ";", " ", "c", "h", "a", "r", "s", "e", "t", "=", "u", "t", "f", "-", "8">>),
    Str(<<"t", "e", "x", "t", "/", "h", "t", "m", "l", ";", " ", "c", "h", "a", "r", "s", "e", "t">>),
    Str(<<"a", "p", "p", "l", "i", "c", "a", "t", "i", "o", "n", "/", "v", "n", "d", "+", "j", "s", "o", "n">>),
    Str(<<"a", "p", "p", "l", "i", "c", "a", "t", "i", "o", "n", "/", "x", "-", "w", "w", "w", "-", "f", "o", "r", "m", "-", "u", "r", "l", "e", "n", "c", "o", "d", "e", "d">>),
    Str(<<"m", "u", "l", "t", "i", "p", "a", "r", "t", "/", "f", "o", "r", "m", "-", "d", "a", "t", "a">>),
    Str(<<"i", "m", "a", "g", "e", "/", "*">>) }

\* the entries of the list of acceptable types
Types ==
  { Undefined, Null, JSTrue, JSFunction,
    Str(<<"p", "n", "g">>), Str(<<".", "p", "n", "g">>), Str(<<"b", "o", "g", "u", "s">>),
    Str(<<"i", "m", "a", "g", "e", "/", "p", "n", "g">>), Str(<<"i", "m", "a", "g", "e", "/", "*">>), Str(<<"I", "m", "a", "g", "e", "/", "*">>), Str(<<"*", "/", "*">>),
    Str(<<"+", "j", "s", "o", "n">>),
    Str(<<"u", "r", "l", "e", "n", "c", "o", "d", "e", "d">>), Str(<<"m", "u", "l", "t", "i", "p", "a", "r", "t">>) }

TypeLists == SeqsUpTo(Types, MaxTypes)

\* the arguments after the first: the types one by one, or one array of them
Arguments == TypeLists \cup {<<Arr(l)>> : l \in TypeLists}

\* values of the content-type header given to typeIs
ContentTypes ==
  { Undefined,
    Str(<<"i", "m", "a", "g", "e", "/", "p", "n", "g">>),
    Str(<<"t", "e", "x", "t", "/", "H", "T", "M", "L", " ", ";", " ", "c", "h", "a", "r", "s", "e", "t", "=", "u", "t", "f", "-", "8">>),
    Str(<<"m", "u", "l", "t", "i", "p", "a", "r", "t", "/", "f", "o", "r", "m", "-", "d", "a", "t", "a">>) }

HeaderMaps ==
  [ te : {Undefined, Str(<<"c", "h", "u", "n", "k", "e", "d">>)},
    cl : {Undefined, Str(<<"0">>), Str(<<"b", "o", "g", "u", "s">>)},
    ct : ContentTypes ]

NoHeaders == [te |-> Undefined, cl |-> Undefined, ct |-> Undefined]

\* media types and types that differ in the case of their letters
CaseMediaTypes ==
  { Str(<<"i", "m", "a", "g", "e", "/", "p", "n", "g">>), Str(<<"I", "M", "A", "G", "E", "/", "P", "N", "G">>), Str(<<"I", "m", "a", "g", "e", "/", "P", "n", "g", ";", " ", "Q", "=", "1">>),
    Str(<<"a", "p", "p", "l", "i", "c", "a", "t", "i", "o", "n", "/", "v", "n", "d", "+", "j", "s", "o", "n">>), Str(<<"A", "p", "p", "l", "i", "c", "a", "t", "i", "o", "n", "/", "V", "N", "D", "+", "J", "S", "O", "N">>) }

CaseTypes ==
  { Str(<<"i", "m", "a", "g", "e", "/", "p", "n", "g">>), Str(<<"I", "M", "A", "G", "E", "/", "P", "N", "G">>), Str(<<"i", "m", "a", "g", "e", "/", "P", "N", "G">>), Str(<<"I", "m", "a", "g", "e", "/", "*">>), Str(<<"*", "/", "P", "N", "G">>),
    Str(<<"+", "j", "s", "o", "n">>), Str(<<"+", "J", "S", "O", "N">>), Str(<<"*", "/", "*", "+", "J", "s", "o", "n">>), Str(<<"P", "N", "G">>), Str(<<".", "P", "n", "g">>) }

CaseTypeLists == SeqsUpTo(CaseTypes, MaxTypes)
CaseArguments == CaseTypeLists \cup {<<Arr(l)>> : l \in CaseTypeLists}

CaseHeaderMaps ==
  [ te : {Undefined, Str(<<"c", "h", "u", "n", "k", "e", "d">>)},
    cl : {Undefined},
    ct : CaseMediaTypes ]

\* the characters of the generated types given to normalize
TypeChars == {"p", "n", "g", ".", "+", "/"}

\* the types given to normalize
NormalizeTypes ==
  { Undefined, Null, JSTrue, JSFunction,
    Str(<<"u", "r", "l", "e", "n", "c", "o", "d", "e", "d">>), Str(<<"m", "u", "l", "t", "i", "p", "a", "r", "t">>), Str(<<".", "m", "u", "l", "t", "i", "p", "a", "r", "t">>),
    Str(<<"j", "s", "o", "n">>), Str(<<".", "j", "s", "o", "n">>), Str(<<"u", "n", "k", "n", "o", "w", "n">>), Str(<<"P", "N", "G">>), Str(<<"a", ".", "p", "n", "g">>),
    Str(<<"+", "j", "s", "o", "n">>), Str(<<"a", "p", "p", "l", "i", "c", "a", "t", "i", "o", "n", "/", "j", "s", "o", "n">>), Str(<<"i", "m", "a", "g", "e", "/", "*">>), Str(<<"*", "/", "*">>) }
    \cup {Str(q) : q \in SeqsUpTo(TypeChars, MaxTypeLen)}

\* the characters of the strings given to mimeMatch
MatchChars == {"a", "/", "*", "+"}
MatchStrings == {Str(q) : q \in SeqsUpTo(MatchChars, MaxLen)}

\* the characters of the content-length values given to hasBody
ClChars == {"0", "7", ".", "e", "-", " ", "b"}
BodyHeaderMaps ==
  [ te : {Undefined, Str(<<>>), Str(<<"c", "h", "u", "n", "k", "e", "d">>)},
    cl : {Undefined} \cup {Str(q) : q \in SeqsUpTo(ClChars, MaxClLen)},
    ct : {Undefined, Str(<<"t", "e", "x", "t", "/", "h", "t", "m", "l">>)} ]

----------------------------------------------------------------------------
(* The calls: the arguments are bound in the initial state, the call returns *)

InitIs ==
  /\ pc = "call" /\ fn = "is"
  /\ mediaType \in MediaTypes
  /\ args \in Arguments
  /\ headers = NoHeaders /\ expected = Undefined /\ result = Undefined

InitTypeIs ==
  /\ pc = "call" /\ fn = "typeIs"
  /\ headers \in HeaderMaps
  /\ args \in Arguments
  /\ mediaType = Undefined /\ expected = Undefined /\ result = Undefined

InitMatch ==
  /\ pc = "call" /\ fn = "mimeMatch"
  /\ expected \in MatchStrings \cup {JSFalse}
  /\ mediaType \in MatchStrings
  /\ headers = NoHeaders /\ args = <<>> /\ result = Undefined

InitBody ==
  /\ pc = "call" /\ fn = "hasBody"
  /\ headers \in BodyHeaderMaps
  /\ mediaType = Undefined /\ args = <<>> /\ expected = Undefined /\ result = Undefined

InitNormalize ==
  /\ pc = "call" /\ fn = "normalize"
  /\ expected \in NormalizeTypes
  /\ headers = NoHeaders /\ mediaType = Undefined /\ args = <<>> /\ result = Undefined

InitIsCase ==
  /\ pc = "call" /\ fn = "is"
  /\ mediaType \in CaseMediaTypes
  /\ args \in CaseArguments
  /\ headers = NoHeaders /\ expected = Undefined /\ result = Undefined

InitTypeIsCase ==
  /\ pc = "call" /\ fn = "typeIs"
  /\ headers \in CaseHeaderMaps
  /\ args \in CaseArguments
  /\ mediaType = Undefined /\ expected = Undefined /\ result = Undefined

isCall ==
  /\ pc = "call" /\ fn = "is"
  /\ result' = is(mediaType, args)
  /\ pc' = "done"
  /\ UNCHANGED <<fn, headers, mediaType, args, expected>>

typeIsCall ==
  /\ pc = "call" /\ fn = "typeIs"
  /\ result' = typeIs(headers, args)
  /\ pc' = "done"
  /\ UNCHANGED <<fn, headers, mediaType, args, expected>>

mimeMatchCall ==
  /\ pc = "call" /\ fn = "mimeMatch"
  /\ result' = Bool(mimeMatch(expected, mediaType))
  /\ pc' = "done"
  /\ UNCHANGED <<fn, headers, mediaType, args, expected>>

hasBodyCall ==
  /\ pc = "call" /\ fn = "hasBody"
  /\ result' = Bool(hasBody(headers))
  /\ pc' = "done"
  /\ UNCHANGED <<fn, headers, mediaType, args, expected>>

normalizeCall ==
  /\ pc = "call" /\ fn = "normalize"
  /\ result' = normalize(expected)
  /\ pc' = "done"
  /\ UNCHANGED <<fn, headers, mediaType, args, expected>>

Init == InitIs \/ InitTypeIs
Next == isCall \/ typeIsCall
Spec == Init /\ [][Next]_vars

NextIs == isCall
SpecIs == InitIs /\ [][NextIs]_vars

InitCase == InitIsCase \/ InitTypeIsCase
SpecCase == InitCase /\ [][Next]_vars

NextMatch == mimeMatchCall
SpecMatch == InitMatch /\ [][NextMatch]_vars

NextBody == hasBodyCall
SpecBody == InitBody /\ [][NextBody]_vars

NextNormalize == normalizeCall
SpecNormalize == InitNormalize /\ [][NextNormalize]_vars

----------------------------------------------------------------------------
(* Properties of typeIs and is *)

\* the list of acceptable types that a call's arguments stand for
PatternList(a) == IF Len(a) > 0 /\ IsArray(a[1]) THEN a[1].v ELSE a

\* the content-type value a call classifies
Actual == IF fn = "typeIs" THEN headers.ct ELSE mediaType

\* the value is missing, empty or not a media type
InvalidActual(x) == x \in {Undefined, Null, Str(<<>>)} \/ contentTypeParse(x).threw

\* the type/subtype of a raw value: what precedes the first ";", trimmed, in lower case
CanonicalForm(raw) ==
  LET semi == IndexOf(raw, ";")
  IN ToLowerCase(Trim(IF semi = -1 THEN raw ELSE SubSeq(raw, 1, semi)))

StartsWithPlus(s) == Len(s) > 0 /\ Head(s) = "+"
ContainsStar(s) == \E i \in 1..Len(s) : s[i] = "*"

\* token t of a list matches the raw value x
TokenMatches(t, x) ==
  /\ ~InvalidActual(x)
  /\ mimeMatch(normalize(t), Str(CanonicalForm(x.v)))

HasMatch(P, x) == \E i \in 1..Len(P) : TokenMatches(P[i], x)

FirstMatch(P, x) ==
  CHOOSE i \in 1..Len(P) : TokenMatches(P[i], x) /\ \A j \in 1..(i - 1) : ~TokenMatches(P[j], x)

\* a token that is no string, or a string that normalize cannot resolve
Unresolvable(t) == ~IsString(t) \/ normalize(t) = JSFalse
Resolvable(t) == ~Unresolvable(t)

\* C1: typeIs returns null exactly when hasBody(headers) is false, whatever the
\* content-type and the acceptable types are
C1_NullIffNoBody ==
  (pc = "done" /\ fn = "typeIs") => ((result = Null) <=> ~hasBody(headers))

C1_Witness ==
  /\ pc = "done" /\ fn = "typeIs"
  /\ ~hasBody(headers)
  /\ headers.ct = Str(<<"i", "m", "a", "g", "e", "/", "p", "n", "g">>)
  /\ \E i \in 1..Len(PatternList(args)) : PatternList(args)[i] = Str(<<"*", "/", "*">>)
  /\ result = Null

\* C2: with a body, typeIs(headers, types) returns what is(headers['content-type'],
\* types) returns, also when the content-type is absent
C2_DelegatesToIs ==
  (pc = "done" /\ fn = "typeIs" /\ hasBody(headers)) => result = is(headers.ct, args)

C2_Witness ==
  /\ pc = "done" /\ fn = "typeIs"
  /\ hasBody(headers)
  /\ headers.ct = Undefined
  /\ Len(PatternList(args)) > 0
  /\ result = JSFalse

\* C3: on a match, is returns the normalized actual media type when the token as
\* given starts with "+" or contains "*", and the token as given otherwise
C3_ReturnedValue ==
  (pc = "done" /\ fn = "is" /\ HasMatch(PatternList(args), mediaType)) =>
    LET t == PatternList(args)[FirstMatch(PatternList(args), mediaType)]
    IN result = IF StartsWithPlus(t.v) \/ ContainsStar(t.v)
                THEN Str(CanonicalForm(mediaType.v))
                ELSE t

C3_Witness ==
  /\ pc = "done" /\ fn = "is"
  /\ mediaType = Str(<<"m", "u", "l", "t", "i", "p", "a", "r", "t", "/", "f", "o", "r", "m", "-", "d", "a", "t", "a">>)
  /\ PatternList(args) = <<Str(<<"m", "u", "l", "t", "i", "p", "a", "r", "t">>)>>
  /\ result = Str(<<"m", "u", "l", "t", "i", "p", "a", "r", "t">>)

\* C4: the first matching token decides: the result is that of the list holding only
\* that token, and that of the list cut after it
C4_FirstMatchWins ==
  (pc = "done" /\ fn = "is" /\ HasMatch(PatternList(args), mediaType)) =>
    LET P == PatternList(args)
        i == FirstMatch(P, mediaType)
    IN /\ result = is(mediaType, <<Arr(<<P[i]>>)>>)
       /\ result = is(mediaType, <<Arr(SubSeq(P, 1, i))>>)

C4_Witness ==
  /\ pc = "done" /\ fn = "is"
  /\ LET P == PatternList(args)
     IN /\ Len(P) = 2
        /\ TokenMatches(P[1], mediaType) /\ TokenMatches(P[2], mediaType)
        /\ is(mediaType, <<Arr(<<P[2]>>)>>) # is(mediaType, <<Arr(<<P[1]>>)>>)
        /\ result = is(mediaType, <<Arr(<<P[1]>>)>>)

\* C5: is returns false for an actual value that is undefined, null, empty or no
\* media type, whatever the acceptable types are
C5_InvalidActualIsFalse ==
  (pc = "done" /\ fn = "is" /\ InvalidActual(mediaType)) => result = JSFalse

C5_Witness ==
  /\ pc = "done" /\ fn = "is"
  /\ mediaType = Str(<<"b", "o", "g", "u", "s">>)
  /\ \E i \in 1..Len(PatternList(args)) : PatternList(args)[i] = Str(<<"*", "/", "*">>)
  /\ result = JSFalse

\* C6: for a valid actual value and no acceptable types (none passed, or an empty
\* array), is returns the actual media type in lower case and without parameters
C6_NoTypesReturnsNormalized ==
  (pc = "done" /\ fn = "is" /\ ~InvalidActual(mediaType)
     /\ (args = <<>> \/ args = <<Arr(<<>>)>>)) =>
    result = Str(CanonicalForm(mediaType.v))

C6_Witness ==
  /\ pc = "done" /\ fn = "is"
  /\ args = <<>>
  /\ mediaType = Str(<<"I", "M", "A", "G", "E", "/", "P", "N", "G", ";", " ", "q", "=", "\"", "a", ";", "b", "\"">>)
  /\ result = Str(<<"i", "m", "a", "g", "e", "/", "p", "n", "g">>)

\* C7: a token that is no string or cannot be resolved never matches and never makes
\* is or typeIs throw: the result is that of the list without such tokens, and false
\* when the list holds nothing else
C7_UnresolvableTokensSkipped ==
  (pc = "done" /\ fn \in {"is", "typeIs"}) =>
    /\ result # Thrown
    /\ (/\ fn = "typeIs" => hasBody(headers)
        /\ ~InvalidActual(Actual)
        /\ Len(PatternList(args)) > 0) =>
         LET Q == SelectSeq(PatternList(args), Resolvable)
         IN IF Q = <<>> THEN result = JSFalse
            ELSE result = is(Actual, <<Arr(Q)>>)

C7_Witness ==
  /\ pc = "done" /\ fn = "is"
  /\ mediaType = Str(<<"i", "m", "a", "g", "e", "/", "p", "n", "g">>)
  /\ PatternList(args) = <<Undefined, Str(<<"b", "o", "g", "u", "s">>)>>
  /\ result = JSFalse

----------------------------------------------------------------------------
(* Properties of hasBody *)

\* apart from surrounding white space, the text is a numeric literal
IsNumericLiteral(s) == Trim(s) # <<>> /\ StringIsNumber(s)

\* C8 as stated: hasBody is true exactly when transfer-encoding is present (any
\* value) or content-length is present and parses as a number
C8_Original ==
  (pc = "done" /\ fn = "hasBody") =>
    ((result = JSTrue) <=>
       \/ headers.te # Undefined
       \/ headers.cl # Undefined /\ IsNumericLiteral(headers.cl.v))

\* C8 as amended: hasBody is true exactly when transfer-encoding is present (any
\* value) or content-length is present and is a numeric literal or empty or made of
\* white space only; the content-type has no part in it
C8_HasBody ==
  (pc = "done" /\ fn = "hasBody") =>
    /\ (result = JSTrue) <=>
         \/ headers.te # Undefined
         \/ /\ headers.cl # Undefined
            /\ IsNumericLiteral(headers.cl.v) \/ Trim(headers.cl.v) = <<>>
    /\ \A c \in ContentTypes : result = Bool(hasBody([headers EXCEPT !.ct = c]))

C8_Witness ==
  /\ pc = "done" /\ fn = "hasBody"
  /\ headers.te = Undefined
  /\ headers.cl = Str(<<>>)
  /\ result = JSTrue

----------------------------------------------------------------------------
(* Properties of mimeMatch *)

SlashCount(s) == Cardinality({i \in 1..Len(s) : s[i] = "/"})

\* the text before the first "/", and the text after it up to the next "/"
FirstSegment(s) == SubSeq(s, 1, IndexOf(s, "/"))
SecondSegment(s) ==
  IF IndexOf(s, "/") = -1 THEN <<>>
  ELSE LET rest == SubSeq(s, IndexOf(s, "/") + 2, Len(s))
       IN IF IndexOf(rest, "/") = -1 THEN rest ELSE SubSeq(rest, 1, IndexOf(rest, "/"))

StartsWithStarPlus(s) == Len(s) >= 2 /\ s[1] = "*" /\ s[2] = "+"

EndsWith(s, suffix) ==
  /\ Len(suffix) <= Len(s)
  /\ \A i \in 1..Len(suffix) : s[Len(s) - Len(suffix) + i] = suffix[i]

TypeSegmentMatches(e, a) == FirstSegment(e) = <<"*">> \/ FirstSegment(e) = FirstSegment(a)

\* C9: for a pattern whose subtype does not start with "*+", mimeMatch is true exactly
\* when pattern and actual have two segments each, the pattern's type is "*" or the
\* actual's type, and the pattern's subtype is "*" or the actual's subtype
C9_PlainMatch ==
  (pc = "done" /\ fn = "mimeMatch" /\ IsString(expected)
     /\ ~StartsWithStarPlus(SecondSegment(expected.v))) =>
    LET e == expected.v
        a == mediaType.v
    IN result = Bool(/\ SlashCount(e) = 1 /\ SlashCount(a) = 1
                     /\ TypeSegmentMatches(e, a)
                     /\ SecondSegment(e) = <<"*">> \/ SecondSegment(e) = SecondSegment(a))

C9_Witness ==
  /\ pc = "done" /\ fn = "mimeMatch"
  /\ expected = Str(<<"a", "/", "*">>)
  /\ mediaType = Str(<<"a", "/", "a", "+">>)
  /\ result = JSTrue

\* C10: for a two-segment pattern whose subtype starts with "*+", mimeMatch is true
\* exactly when the actual has two segments, the pattern's type is "*" or the actual's
\* type, and the actual's subtype ends with the pattern's subtype less its "*"
C10_SuffixWildcard ==
  (pc = "done" /\ fn = "mimeMatch" /\ IsString(expected)
     /\ SlashCount(expected.v) = 1 /\ StartsWithStarPlus(SecondSegment(expected.v))) =>
    LET e == expected.v
        a == mediaType.v
    IN result = Bool(/\ SlashCount(a) = 1
                     /\ TypeSegmentMatches(e, a)
                     /\ EndsWith(SecondSegment(a), Tail(SecondSegment(e))))

C10_Witness ==
  /\ pc = "done" /\ fn = "mimeMatch"
  /\ expected = Str(<<"a", "/", "*", "+">>)
  /\ mediaType = Str(<<"+", "/", "a", "+">>)
  /\ result = JSFalse

----------------------------------------------------------------------------
(* Properties of normalize *)

\* the extension a name stands for: the text after its last ".", in lower case
ExtensionOf(name) == ToLowerCase(SubSeq(name, LastIndexOf(name, ".") + 2, Len(name)))

\* the media type registered for a name's extension, false when there is none
RegisteredType(name) ==
  IF \E e \in MimeTypes : e[1] = ExtensionOf(name)
  THEN Str((CHOOSE e \in MimeTypes : e[1] = ExtensionOf(name))[2])
  ELSE JSFalse

IsAlias(s) == s = <<"u", "r", "l", "e", "n", "c", "o", "d", "e", "d">> \/ s = <<"m", "u", "l", "t", "i", "p", "a", "r", "t">>

\* C11: normalize gives false for a non-string, the media type of the two aliases,
\* "*/*" followed by the token for a token that starts with "+" (even when it holds
\* a "/"), the registered media type or false for any other token without "/" (with
\* or without a leading "."), and any other token unchanged
C11_NormalizeRules ==
  (pc = "done" /\ fn = "normalize") =>
    LET t == expected
    IN /\ ~IsString(t) => result = JSFalse
       /\ t = Str(<<"u", "r", "l", "e", "n", "c", "o", "d", "e", "d">>) => result = Str(<<"a", "p", "p", "l", "i", "c", "a", "t", "i", "o", "n", "/", "x", "-", "w", "w", "w", "-", "f", "o", "r", "m", "-", "u", "r", "l", "e", "n", "c", "o", "d", "e", "d">>)
       /\ t = Str(<<"m", "u", "l", "t", "i", "p", "a", "r", "t">>) => result = Str(<<"m", "u", "l", "t", "i", "p", "a", "r", "t", "/", "*">>)
       /\ (IsString(t) /\ StartsWithPlus(t.v)) => result = Str(<<"*", "/", "*">> \o t.v)
       /\ (IsString(t) /\ ~IsAlias(t.v) /\ ~StartsWithPlus(t.v) /\ IndexOf(t.v, "/") = -1) =>
            /\ result = RegisteredType(t.v)
            /\ result = normalize(Str(<<".">> \o t.v))
       /\ (IsString(t) /\ ~StartsWithPlus(t.v) /\ IndexOf(t.v, "/") # -1) => result = t

C11_Witness ==
  /\ pc = "done" /\ fn = "normalize"
  /\ expected = Str(<<"+", "/", "p">>)
  /\ result = Str(<<"*", "/", "*", "+", "/", "p">>)

----------------------------------------------------------------------------
(* Further properties of is and typeIs *)

\* C12: normalization gives the type/subtype in lower case without parameters, gives
\* the same value when applied to its own result, and is gives for the raw value
\* what it gives for the normalized one
C12_NormalizationIdempotent ==
  (pc = "done" /\ fn = "is" /\ ~InvalidActual(mediaType)) =>
    LET n == tryNormalizeType(mediaType)
    IN /\ n = Str(CanonicalForm(mediaType.v))
       /\ IndexOf(n.v, ";") = -1
       /\ tryNormalizeType(n) = n
       /\ result = is(n, args)

C12_Witness ==
  /\ pc = "done" /\ fn = "is"
  /\ mediaType = Str(<<"t", "e", "x", "t", "/", "H", "T", "M", "L", " ", ";", " ", "c", "h", "a", "r", "s", "e", "t", "=", "u", "t", "f", "-", "8">>)
  /\ PatternList(args) = <<Str(<<"*", "/", "*">>)>>
  /\ result = Str(<<"t", "e", "x", "t", "/", "h", "t", "m", "l">>)

\* C13: is and typeIs return the same for the types passed one by one as for the
\* types passed in one array
C13_VariadicEquivalence ==
  (pc = "done" /\ fn \in {"is", "typeIs"}) =>
    LET P == PatternList(args)
    IN (\A i \in 1..Len(P) : ~IsArray(P[i])) =>
         IF fn = "is"
         THEN result = is(mediaType, P) /\ result = is(mediaType, <<Arr(P)>>)
         ELSE result = typeIs(headers, P) /\ result = typeIs(headers, <<Arr(P)>>)

C13_Witness ==
  /\ pc = "done" /\ fn = "typeIs"
  /\ headers.ct = Str(<<"i", "m", "a", "g", "e", "/", "p", "n", "g">>)
  /\ args = <<Str(<<"i", "m", "a", "g", "e", "/", "p", "n", "g">>), Str(<<"i", "m", "a", "g", "e", "/", "*">>)>>
  /\ result = Str(<<"i", "m", "a", "g", "e", "/", "p", "n", "g">>)

\* C17: is returns false, the normalized actual media type, or a token of the list
\* that is a string without a leading "+" and without "*"
C17_ResultRange ==
  (pc = "done" /\ fn = "is") =>
    \/ result = JSFalse
    \/ ~InvalidActual(mediaType) /\ result = Str(CanonicalForm(mediaType.v))
    \/ \E i \in 1..Len(PatternList(args)) :
         /\ result = PatternList(args)[i]
         /\ IsString(result)
         /\ ~StartsWithPlus(result.v) /\ ~ContainsStar(result.v)

C17_Witness ==
  /\ pc = "done" /\ fn = "is"
  /\ mediaType = Str(<<"i", "m", "a", "g", "e", "/", "p", "n", "g">>)
  /\ result = Str(<<".", "p", "n", "g">>)

----------------------------------------------------------------------------
(* Further properties of mimeMatch *)

\* a media type as normalization leaves it: token "/" token, in lower case
IsNormalizedMediaType(a) == TypeRegexpTest(a) /\ ToLowerCase(a) = a

\* C14: mimeMatch(a, a) is true for every normalized media type a, also when its
\* subtype starts with "*+"
C14_Reflexive ==
  (pc = "done" /\ fn = "mimeMatch" /\ expected = mediaType
     /\ IsNormalizedMediaType(mediaType.v)) =>
    result = JSTrue

C14_Witness ==
  /\ pc = "done" /\ fn = "mimeMatch"
  /\ expected = Str(<<"a", "/", "*", "+">>)
  /\ mediaType = Str(<<"a", "/", "*", "+">>)
  /\ result = JSTrue

\* C15: an expected value without "*" matches no actual but itself, whatever "*" the
\* actual holds
C15_NoWildcardInActual ==
  (pc = "done" /\ fn = "mimeMatch" /\ IsString(expected) /\ ~ContainsStar(expected.v)
     /\ result = JSTrue) =>
    expected = mediaType

C15_Witness ==
  /\ pc = "done" /\ fn = "mimeMatch"
  /\ expected = Str(<<"a", "/", "a">>)
  /\ mediaType = Str(<<"*", "/", "*">>)
  /\ result = JSFalse

----------------------------------------------------------------------------
(* Case of the letters *)

HasUpperCase(s) == \E i \in 1..Len(s) : \E k \in 1..Len(UpperLetters) : s[i] = UpperLetters[k]

\* a token with a "/" or a leading "+" that holds an upper-case letter
UpperCasePattern(t) ==
  /\ IsString(t)
  /\ IndexOf(t.v, "/") # -1 \/ StartsWithPlus(t.v)
  /\ HasUpperCase(t.v)

LowerCasePattern(t) == ~UpperCasePattern(t)

\* C16: in is and typeIs a token with a "/" or a leading "+" that holds an upper-case
\* letter never matches: the result is that of the list without such tokens, and
\* false when the list holds nothing else
C16_PatternsCaseSensitive ==
  (pc = "done" /\ fn \in {"is", "typeIs"}
     /\ (fn = "typeIs" => hasBody(headers))
     /\ ~InvalidActual(Actual)
     /\ Len(PatternList(args)) > 0) =>
    LET Q == SelectSeq(PatternList(args), LowerCasePattern)
    IN /\ \A i \in 1..Len(PatternList(args)) :
            UpperCasePattern(PatternList(args)[i]) => result # PatternList(args)[i]
       /\ IF Q = <<>> THEN result = JSFalse ELSE result = is(Actual, <<Arr(Q)>>)

C16_Witness ==
  /\ pc = "done" /\ fn = "is"
  /\ mediaType = Str(<<"I", "M", "A", "G", "E", "/", "P", "N", "G">>)
  /\ PatternList(args) = <<Str(<<"I", "M", "A", "G", "E", "/", "P", "N", "G">>)>>
  /\ result = JSFalse

====
